---- MODULE Spec2Model ----
(***************************************************************************)
(* Tychee card tokenization SDK: the session object of TycheeSDK           *)
(* (sdk/src/core/engine.ts) with its three initializers and its lifecycle  *)
(* operations, and the card validator and key derivation it calls          *)
(* (sdk/src/crypto.ts).  The access-mode methods, the card validator, the  *)
(* tokenizer helpers, the cipher, the expiry timestamp of storeCard, the   *)
(* confirmation wait of lib/db.ts and the cards and points API routes each *)
(* have a specification of their own over the same variables.              *)
(*                                                                         *)
(* Every async method is cut at its awaits: the code between two awaits    *)
(* runs atomically (one JavaScript task), and other calls on the same      *)
(* session may run between them.  The ledger (Horizon), the wallet's       *)
(* transaction signer and the wallet's message signer are the environment: *)
(* each of their promises resolves or rejects nondeterministically.        *)
(***************************************************************************)
EXTENDS Integers, Sequences, FiniteSets, TLC

\* Bounds of the model.
MaxPending == 2        \* initializeWithSigner calls awaiting the message signer
MaxDerivations == 2    \* the derivation counter saturates here
MaxPlain == 2          \* bytes of plaintext handed to encrypt
MaxPolls == 3          \* the count of getTransaction calls saturates here
MaxTotal == 25100      \* no request takes a total_points above this

\* Program constants.
KEY_LENGTH == 32
IV_LENGTH == 12
AUTH_TAG_LENGTH == 16
SHA256_LENGTH == 32
MIN_PAN_LENGTH == 13
MAX_PAN_LENGTH == 19

None == "none"
Users == {"GA", "GB"}      \* ledger identities (public keys)
Wallet == "wallet"         \* a signing callback handed in by the caller

VARIABLES
    userKeypair,           \* None, or the user whose secret the keypair holds
    userPublicKey,         \* None or a user
    externalSigner,        \* None or Wallet
    messageSigner,         \* None or Wallet
    derivedEncryptionKey,  \* None or a key
    contract,              \* TRUE iff the constructor built the vault contract
    call,                  \* the lifecycle call in flight or last finished
    msgSignerPending,      \* user -> message-signer invocations not yet settled
    derivations,           \* keys derived so far in this session (saturating)
    vaultTokens,           \* the users the vault holds a non-revoked token of
    useAccountAbstraction, \* config.useAccountAbstraction
    aaContract,            \* TRUE iff the constructor built the AA contract
    vaultMode,             \* user -> the access mode the vault holds
    aaCall,                \* the access-mode call in flight or last finished
    basePan,               \* the PAN first handed to the validator
    inputPan,              \* the PAN under validation
    baseVerdict,           \* the validator's answer for basePan
    verdict,               \* the validator's answer for inputPan
    expiry,                 \* the expiry computation of storeCard: input and result
    tokenizer,              \* the PAN handed to the tokenizer helpers and their results
    cipher,                 \* a plaintext, its key, the payload made of it and what decrypt gave
    confirm,                \* signAndSubmitTransaction: where the call stands and what it returned
    db                     \* the tables the cards and points routes use, and the last response

vars == <<userKeypair, userPublicKey, externalSigner, messageSigner,
          derivedEncryptionKey, contract, call, msgSignerPending, derivations,
          vaultTokens, useAccountAbstraction, aaContract, vaultMode, aaCall,
          basePan, inputPan, baseVerdict, verdict, expiry,
          tokenizer,
          cipher,
          confirm,
          db>>

aaVars == <<useAccountAbstraction, aaContract, vaultMode, aaCall>>

lifecycleVars == <<call, msgSignerPending, derivations, vaultTokens>>

validatorVars == <<basePan, inputPan, baseVerdict, verdict>>

\* The computations modelled on their own.
utilityVars == <<expiry, tokenizer, cipher, confirm, db>>

\* What the initializers and the lifecycle operations never touch.
outsideLifecycle == <<aaVars, validatorVars, utilityVars>>

session == <<userKeypair, userPublicKey, externalSigner, messageSigner,
             derivedEncryptionKey, contract>>

----------------------------------------------------------------------------
\* Card validator (crypto.ts, CardTokenizer).  A PAN is a sequence of
\* characters: 0..9 are the digits, 10 is a space, 11 a dash, 12 any other.

Separators == {10, 11}

CleanPan(pan) == SelectSeq(pan, LAMBDA ch : ch \notin Separators)

\* The checksum loop without the fold of a doubled digit above 9.
RECURSIVE LuhnSum_NoFold(_, _, _)
LuhnSum_NoFold(cleaned, i, isEven) ==
    IF i = 0 THEN 0
    ELSE LET digit == cleaned[i]
         IN (IF isEven THEN 2 * digit ELSE digit)
                + LuhnSum_NoFold(cleaned, i - 1, ~isEven)

RECURSIVE LuhnSum(_, _, _)
LuhnSum(cleaned, i, isEven) ==
    IF i = 0 THEN 0
    ELSE LET digit == cleaned[i]
             doubled == IF 2 * digit > 9 THEN 2 * digit - 9 ELSE 2 * digit
         IN (IF isEven THEN doubled ELSE digit) + LuhnSum(cleaned, i - 1, ~isEven)

\* The validator without its length test.
validateCardNumber_NoLength(pan) ==
    LET cleaned == CleanPan(pan) IN
    IF Len(cleaned) = 0 \/ \E i \in 1..Len(cleaned) : cleaned[i] \notin 0..9
    THEN FALSE
    ELSE LuhnSum(cleaned, Len(cleaned), FALSE) % 10 = 0

validateCardNumber(pan) ==
    LET cleaned == CleanPan(pan) IN
    IF Len(cleaned) = 0 \/ \E i \in 1..Len(cleaned) : cleaned[i] \notin 0..9
    THEN FALSE
    ELSE IF Len(cleaned) < MIN_PAN_LENGTH \/ Len(cleaned) > MAX_PAN_LENGTH
    THEN FALSE
    ELSE LuhnSum(cleaned, Len(cleaned), FALSE) % 10 = 0

\* The PANs handed to storeCard.
CardPans ==
    { <<4,2,4,2,4,2,4,2,4,2,4,2,4,2,4,2>>,                 \* passes Luhn
      <<4,2,4,2,10,4,2,4,2,10,4,2,4,2,10,4,2,4,2>>,        \* the same, spaced
      <<4,2,4,2,4,2,4,2,4,2,4,2,4,2,4,1>>,                 \* fails Luhn
      <<4,2,4,2>> }                                        \* too short

----------------------------------------------------------------------------
\* Key derivation.  SHA-256 is modelled as an injective constructor: the
\* digest records what was hashed.

sha256(kind, user) == [kind |-> kind, user |-> user, len |-> SHA256_LENGTH]

\* RingCompatibleCrypto.deriveUserKey(secret of user)
deriveUserKey(user) == sha256("secret", user)

\* sha256 of the wallet's signature of "TYCHEE_KEY_DERIVATION:<user>:v1"
SignatureKey(user) == sha256("signature", user)

Keys == {deriveUserKey(u) : u \in Users} \cup {SignatureKey(u) : u \in Users}

\* RingCompatibleCrypto.encrypt / decrypt accept a key of KEY_LENGTH bytes only.
KeyAccepted(key) == key.len = KEY_LENGTH

\* An absent key (an undefined Buffer).
NoKey == [kind |-> None, user |-> None, len |-> 0]

----------------------------------------------------------------------------
\* Session predicates (engine.ts 115-137).

Initialized == userPublicKey # None \/ userKeypair # None

\* getUserAddress(), where it does not throw
getUserAddress == IF userPublicKey # None THEN userPublicKey ELSE userKeypair

canWrite == userKeypair # None \/ externalSigner # None

\* Mutant: holding an external signer counts as being able to encrypt.
canEncrypt_WithSigner ==
    userKeypair # None \/ derivedEncryptionKey # NoKey \/ externalSigner # None

canEncrypt == userKeypair # None \/ derivedEncryptionKey # NoKey

\* Which credentials the session holds.
SessionKind ==
    IF ~Initialized THEN "uninitialized"
    ELSE IF userKeypair = None /\ externalSigner = None THEN "readOnly"
    ELSE IF externalSigner = None THEN "local"
    ELSE IF userKeypair = None THEN "delegated"
    ELSE "both"

----------------------------------------------------------------------------
\* The lifecycle call in flight.  pc is the await the call is suspended at.

IdleCall ==
    [op |-> None, pc |-> "idle", outcome |-> None, result |-> None,
     err |-> None, cause |-> None, entry |-> None, addr |-> None, pan |-> <<>>,
     keySrc |-> None, key |-> NoKey, identity |-> None, sealedWith |-> NoKey,
     net |-> 0, signs |-> 0, subs |-> 0, encs |-> 0, submitted |-> FALSE,
     token |-> None, entryDerived |-> FALSE]

NewCall(op, pan) ==
    [IdleCall EXCEPT !.op = op, !.pc = "running", !.entry = SessionKind,
                     !.entryDerived = (derivedEncryptionKey # NoKey),
                     !.pan = pan]

\* The promise rejects with error e.
Throw(rec, e) == [rec EXCEPT !.pc = "done", !.outcome = "threw", !.err = e]

\* The promise resolves with a value of shape r.
Return(rec, r) == [rec EXCEPT !.pc = "done", !.outcome = "returned", !.result = r]

\* Lifecycle calls are issued one at a time (callers must not overlap store
\* and revoke calls of one identity); initializer calls overlap them freely.
CallFree == call.pc \in {"idle", "done"}

Saturate(n) == IF n < MaxDerivations THEN n + 1 ELSE MaxDerivations

----------------------------------------------------------------------------
\* Initializers (engine.ts 48-113).

PendingTotal == msgSignerPending["GA"] + msgSignerPending["GB"]

\* initialize(secretKey): the keypair of user u
initialize(u) ==
    /\ userKeypair' = u
    /\ userPublicKey' = u
    /\ UNCHANGED <<externalSigner, messageSigner, derivedEncryptionKey,
                   contract, call, msgSignerPending, derivations, vaultTokens>>
    /\ UNCHANGED outsideLifecycle

\* initializeReadOnly(publicKey)
initializeReadOnly(u) ==
    /\ userPublicKey' = u
    /\ UNCHANGED <<userKeypair, externalSigner, messageSigner,
                   derivedEncryptionKey, contract, call, msgSignerPending,
                   derivations, vaultTokens>>
    /\ UNCHANGED outsideLifecycle

\* deriveEncryptionKeyFromSignature up to its await, the session's fields
\* being those initializeWithSigner has just assigned: TRUE iff it invokes
\* the message signer (no cached key).
InvokesMessageSigner(u, ms) == derivedEncryptionKey = NoKey /\ ms # None /\ u # None

\* initializeWithSigner(publicKey, signer, messageSigner?) up to its await
initializeWithSigner(u, ms) ==
    /\ InvokesMessageSigner(u, ms) => PendingTotal < MaxPending
    /\ userPublicKey' = u
    /\ externalSigner' = Wallet
    /\ messageSigner' = ms
    /\ msgSignerPending' =
          IF InvokesMessageSigner(u, ms)
          THEN [msgSignerPending EXCEPT ![u] = @ + 1]
          ELSE msgSignerPending
    /\ UNCHANGED <<userKeypair, derivedEncryptionKey, contract, call, derivations,
                   vaultTokens>>
    /\ UNCHANGED outsideLifecycle

\* The message signer resolves: deriveEncryptionKeyFromSignature caches the
\* digest of the signature over the message built for u (engine.ts 100-104).
MessageSignerResolves(u) ==
    /\ msgSignerPending[u] > 0
    /\ msgSignerPending' = [msgSignerPending EXCEPT ![u] = @ - 1]
    /\ derivedEncryptionKey' = SignatureKey(u)
    /\ derivations' = Saturate(derivations)
    /\ UNCHANGED <<userKeypair, userPublicKey, externalSigner, messageSigner,
                   contract, call, vaultTokens>>
    /\ UNCHANGED outsideLifecycle

\* The message signer rejects: initializeWithSigner rejects.
MessageSignerRejects(u) ==
    /\ msgSignerPending[u] > 0
    /\ msgSignerPending' = [msgSignerPending EXCEPT ![u] = @ - 1]
    /\ UNCHANGED <<userKeypair, userPublicKey, externalSigner, messageSigner,
                   derivedEncryptionKey, contract, call, derivations, vaultTokens>>
    /\ UNCHANGED outsideLifecycle

----------------------------------------------------------------------------
\* Steps shared by the lifecycle operations.

\* CardTokenizer.encryptCard, then server.loadAccount is called
\* (engine.ts 176-207).
encryptAndLoad(rec, key) ==
    LET r == [rec EXCEPT !.key = key, !.identity = getUserAddress] IN
    IF ~KeyAccepted(key) THEN Throw(r, "KeyLength")
    ELSE [r EXCEPT !.encs = @ + 1, !.net = @ + 1, !.pc = "loading"]

\* CardTokenizer.decryptCard: the tag verifies under the sealing key only.
decryptWith(rec, key) ==
    LET r == [rec EXCEPT !.key = key, !.identity = getUserAddress] IN
    IF ~KeyAccepted(key) THEN Throw(r, "KeyLength")
    ELSE IF key # rec.sealedWith THEN Throw(r, "Authentication")
    ELSE Return(r, "CardData")

\* Mutant: the catch swallows the error and still hands out metadata.
storeCardCatch_Swallow(rec, e) == Return(rec, "TokenMetadata")

\* Mutant: a failed submission is submitted again.
storeCardCatch_Retry(rec, e) ==
    IF e = "SubmitFailed" /\ rec.subs < 2
    THEN [rec EXCEPT !.subs = @ + 1, !.net = @ + 1, !.pc = "submitting"]
    ELSE Throw(rec, e)

\* storeCard: catch (error) { console.error; throw error }
storeCardCatch(rec, e) == Throw(rec, e)

\* Mutant: the catch rethrows.
retrieveCardCatch_Rethrow(rec, e) == Throw(rec, e)

\* retrieveCard: catch (error) { console.warn; return null }
retrieveCardCatch(rec, e) == Return(rec, "null")

\* revokeCard: catch (error) { return { success: false, error: error.message } }
revokeCardCatch(rec, e) == [Return(rec, "failure") EXCEPT !.err = e]

\* An error e raised inside the operation's try block reaches its catch.
Catch(rec, e) ==
    LET r == [rec EXCEPT !.cause = e] IN
    CASE rec.op = "storeCard" -> storeCardCatch(r, e)
      [] rec.op = "retrieveCard" -> retrieveCardCatch(r, e)
      [] rec.op = "revokeCard" -> revokeCardCatch(r, e)

\* server.submitTransaction(signedTx) is called.
Submit(rec) ==
    [rec EXCEPT !.subs = @ + 1, !.net = @ + 1, !.pc = "submitting"]

\* The transaction is built and signed, by the keypair or the external signer.
BuildAndSign(rec) ==
    IF ~contract THEN Catch(rec, "NoContract")
    ELSE IF userKeypair # None THEN Submit(rec)
    ELSE IF externalSigner # None
         THEN [rec EXCEPT !.signs = @ + 1, !.pc = "signing"]
    ELSE Catch(rec, "NoSigner")

\* The value each operation resolves with once the submission succeeded.
Complete(rec) ==
    LET r == [rec EXCEPT !.submitted = TRUE] IN
    CASE rec.op = "storeCard" -> Return(r, "TokenMetadata")
      [] rec.op = "retrieveCard" -> Return(r, "null")
      [] rec.op = "revokeCard" -> Return(r, "success")

----------------------------------------------------------------------------
\* Lifecycle operations up to their first await.

\* Mutant: the capability checks are missing.
storeCardPrefix_NoChecks(pan) ==
    LET rec == NewCall("storeCard", pan) IN
    IF ~Initialized THEN Throw(rec, "NotInitialized")
    ELSE LET r == [rec EXCEPT !.addr = getUserAddress] IN
         IF ~validateCardNumber(pan) THEN Throw(r, "InvalidCard")
         ELSE IF userKeypair # None
              THEN [r EXCEPT !.pc = "deriving", !.keySrc = userKeypair]
         ELSE IF derivedEncryptionKey # NoKey
              THEN [r EXCEPT !.key = derivedEncryptionKey, !.encs = @ + 1,
                             !.net = @ + 1, !.pc = "loading"]
         ELSE Throw(r, "NoKey")

\* Mutant: the card number is not validated.
storeCardPrefix_NoValidation(pan) ==
    LET rec == NewCall("storeCard", pan) IN
    IF ~Initialized THEN Throw(rec, "NotInitialized")
    ELSE LET r == [rec EXCEPT !.addr = getUserAddress] IN
         IF ~canWrite THEN Throw(r, "CapabilityWrite")
         ELSE IF ~canEncrypt THEN Throw(r, "CapabilityEncrypt")
         ELSE IF userKeypair # None
              THEN [r EXCEPT !.pc = "deriving", !.keySrc = userKeypair]
         ELSE IF derivedEncryptionKey # NoKey
              THEN encryptAndLoad(r, derivedEncryptionKey)
         ELSE Throw(r, "NoKey")

\* storeCard (engine.ts 142-207)
storeCardPrefix(pan) ==
    LET rec == NewCall("storeCard", pan) IN
    IF ~Initialized THEN Throw(rec, "NotInitialized")
    ELSE LET r == [rec EXCEPT !.addr = getUserAddress] IN
         IF ~canWrite THEN Throw(r, "CapabilityWrite")
         ELSE IF ~canEncrypt THEN Throw(r, "CapabilityEncrypt")
         ELSE IF ~validateCardNumber(pan) THEN Throw(r, "InvalidCard")
         ELSE IF userKeypair # None
              THEN [r EXCEPT !.pc = "deriving", !.keySrc = userKeypair]
         ELSE IF derivedEncryptionKey # NoKey
              THEN encryptAndLoad(r, derivedEncryptionKey)
         ELSE Throw(r, "NoKey")

\* retrieveCard (engine.ts 269-283)
retrieveCardPrefix ==
    LET rec == NewCall("retrieveCard", <<>>) IN
    IF ~Initialized THEN Throw(rec, "NotInitialized")
    ELSE LET r == [rec EXCEPT !.addr = getUserAddress] IN
         IF ~canWrite THEN Throw(r, "CapabilityWrite")
         ELSE [r EXCEPT !.net = @ + 1, !.pc = "loading"]

\* revokeCard (engine.ts 327-341)
revokeCardPrefix ==
    LET rec == NewCall("revokeCard", <<>>) IN
    IF ~Initialized THEN Throw(rec, "NotInitialized")
    ELSE LET r == [rec EXCEPT !.addr = getUserAddress] IN
         IF ~canWrite THEN Throw(r, "CapabilityWrite")
         ELSE [r EXCEPT !.net = @ + 1, !.pc = "loading"]

\* Mutant: decryptCard loads the account before it decrypts.
decryptCardPrefix_LoadsAccount(k) ==
    LET rec == [NewCall("decryptCard", <<>>) EXCEPT !.sealedWith = k, !.net = 1] IN
    IF ~canEncrypt THEN Throw(rec, "CapabilityEncrypt")
    ELSE IF userKeypair # None
         THEN [rec EXCEPT !.pc = "deriving", !.keySrc = userKeypair]
    ELSE IF derivedEncryptionKey # NoKey
         THEN decryptWith(rec, derivedEncryptionKey)
    ELSE Throw(rec, "NoKey")

\* decryptCard (engine.ts 387-403); the payload was sealed with key k
decryptCardPrefix(k) ==
    LET rec == [NewCall("decryptCard", <<>>) EXCEPT !.sealedWith = k] IN
    IF ~canEncrypt THEN Throw(rec, "CapabilityEncrypt")
    ELSE IF userKeypair # None
         THEN [rec EXCEPT !.pc = "deriving", !.keySrc = userKeypair]
    ELSE IF derivedEncryptionKey # NoKey
         THEN decryptWith(rec, derivedEncryptionKey)
    ELSE Throw(rec, "NoKey")

----------------------------------------------------------------------------
\* Actions of the lifecycle call.

storeCard(pan) ==
    /\ CallFree
    /\ call' = storeCardPrefix(pan)
    /\ UNCHANGED <<session, msgSignerPending, derivations, vaultTokens>>
    /\ UNCHANGED outsideLifecycle

retrieveCard ==
    /\ CallFree
    /\ call' = retrieveCardPrefix
    /\ UNCHANGED <<session, msgSignerPending, derivations, vaultTokens>>
    /\ UNCHANGED outsideLifecycle

revokeCard ==
    /\ CallFree
    /\ call' = revokeCardPrefix
    /\ UNCHANGED <<session, msgSignerPending, derivations, vaultTokens>>
    /\ UNCHANGED outsideLifecycle

decryptCard(k) ==
    /\ CallFree
    /\ call' = decryptCardPrefix(k)
    /\ UNCHANGED <<session, msgSignerPending, derivations, vaultTokens>>
    /\ UNCHANGED outsideLifecycle

\* await RingCompatibleCrypto.deriveUserKey(secret) resumes
\* (engine.ts 169 and 395).
DeriveUserKeyResumes ==
    /\ call.pc = "deriving"
    /\ derivations' = Saturate(derivations)
    /\ call' = IF call.op = "storeCard"
               THEN encryptAndLoad(call, deriveUserKey(call.keySrc))
               ELSE decryptWith(call, deriveUserKey(call.keySrc))
    /\ UNCHANGED <<session, msgSignerPending, vaultTokens>>
    /\ UNCHANGED outsideLifecycle

\* await server.loadAccount(userAddress) settles.
LoadAccountSettles(ok) ==
    /\ call.pc = "loading"
    /\ call' = IF ok THEN BuildAndSign(call) ELSE Catch(call, "LoadAccountFailed")
    /\ UNCHANGED <<session, msgSignerPending, derivations, vaultTokens>>
    /\ UNCHANGED outsideLifecycle

\* await externalSigner(xdr, opts) settles.
ExternalSignerSettles(ok) ==
    /\ call.pc = "signing"
    /\ call' = IF ok THEN Submit(call) ELSE Catch(call, "SignerRejected")
    /\ UNCHANGED <<session, msgSignerPending, derivations, vaultTokens>>
    /\ UNCHANGED outsideLifecycle

\* The vault contract, as the ledger runs it on a submitted transaction:
\* store_token fails while the user has a non-revoked token.
VaultAccepts(rec) == rec.op = "storeCard" => rec.addr \notin vaultTokens

\* retrieve_token(user) -> token_record | absent
VaultLookup(rec) ==
    IF rec.op # "retrieveCard" THEN None
    ELSE IF rec.addr \in vaultTokens THEN "record" ELSE "absent"

\* The vault's tokens after the transaction of rec has been applied.
VaultApply(rec) ==
    CASE rec.op = "storeCard" -> vaultTokens \cup {rec.addr}
      [] rec.op = "revokeCard" -> vaultTokens \ {rec.addr}
      [] OTHER -> vaultTokens

\* await server.submitTransaction(signedTx) settles.
SubmitSettles(ok) ==
    /\ call.pc = "submitting"
    /\ ok => VaultAccepts(call)
    /\ call' = IF ok THEN Complete([call EXCEPT !.token = VaultLookup(call)])
               ELSE Catch(call, "SubmitFailed")
    /\ vaultTokens' = IF ok THEN VaultApply(call) ELSE vaultTokens
    /\ UNCHANGED <<session, msgSignerPending, derivations>>
    /\ UNCHANGED outsideLifecycle

----------------------------------------------------------------------------
\* Access-mode controller (engine.ts 405-480).

AccessModes == {"standard", "sponsored", "sessionKey", "multisig"}

IdleAACall ==
    [op |-> None, pc |-> "idle", user |-> None, mode |-> None,
     outcome |-> None, result |-> None, err |-> None, net |-> 0, built |-> 0,
     answer |-> None, submitted |-> FALSE]

AACallFree == aaCall.pc \in {"idle", "done"}

\* Mutant: only the keypair is checked, not the configuration.
AAUnavailable_KeypairOnly == userKeypair = None

\* !this.config.useAccountAbstraction || !this.aaContract || !this.userKeypair
AAUnavailable == ~useAccountAbstraction \/ ~aaContract \/ userKeypair = None

AAReturn(rec, r) == [rec EXCEPT !.pc = "done", !.outcome = "returned", !.result = r]

AAThrow(rec, e) == [rec EXCEPT !.pc = "done", !.outcome = "threw", !.err = e]

\* getAAMode up to its first await (engine.ts 408-415)
getAAModePrefix ==
    LET rec == [IdleAACall EXCEPT !.op = "getAAMode"] IN
    IF AAUnavailable THEN AAReturn(rec, "standard")
    ELSE [rec EXCEPT !.user = userKeypair, !.net = 1, !.pc = "loading"]

\* setAAMode(mode) up to its first await (engine.ts 443-452)
setAAModePrefix(m) ==
    LET rec == [IdleAACall EXCEPT !.op = "setAAMode", !.mode = m] IN
    IF AAUnavailable THEN AAThrow(rec, "AccountAbstractionNotEnabled")
    ELSE [rec EXCEPT !.user = userKeypair, !.net = 1, !.pc = "loading"]

\* getAAMode: catch (error) { return 'standard' };
\* setAAMode: catch (error) { return { success: false, error: error.message } }
AACatch(rec, e) ==
    IF rec.op = "getAAMode" THEN AAReturn(rec, "standard")
    ELSE [AAReturn(rec, "failure") EXCEPT !.err = e]

\* The value returned once the submission succeeded; answer is what the
\* vault's get_mode gave.
AAComplete(rec, answer) ==
    LET r == [rec EXCEPT !.submitted = TRUE, !.answer = answer] IN
    IF rec.op = "getAAMode" THEN AAReturn(r, "standard")
    ELSE AAReturn(r, "success")

\* The vault's modes after the transaction of rec has been applied.
VaultModeApply(rec) ==
    IF rec.op = "setAAMode" THEN [vaultMode EXCEPT ![rec.user] = rec.mode]
    ELSE vaultMode

getAAMode ==
    /\ AACallFree
    /\ aaCall' = getAAModePrefix
    /\ UNCHANGED <<session, lifecycleVars, validatorVars, utilityVars,
                   useAccountAbstraction, aaContract,
                   vaultMode>>

setAAMode(m) ==
    /\ AACallFree
    /\ aaCall' = setAAModePrefix(m)
    /\ UNCHANGED <<session, lifecycleVars, validatorVars, utilityVars,
                   useAccountAbstraction, aaContract,
                   vaultMode>>

\* await server.loadAccount(...) settles; the transaction is built, signed
\* with the keypair and submitted.
AALoadAccountSettles(ok) ==
    /\ aaCall.pc = "loading"
    /\ aaCall' = IF ok
                 THEN [aaCall EXCEPT !.built = @ + 1, !.net = @ + 1,
                                     !.pc = "submitting"]
                 ELSE AACatch(aaCall, "LoadAccountFailed")
    /\ UNCHANGED <<session, lifecycleVars, validatorVars, utilityVars,
                   useAccountAbstraction, aaContract,
                   vaultMode>>

\* await server.submitTransaction(transaction) settles.
AASubmitSettles(ok) ==
    /\ aaCall.pc = "submitting"
    /\ aaCall' = IF ok THEN AAComplete(aaCall, vaultMode[aaCall.user])
                 ELSE AACatch(aaCall, "SubmitFailed")
    /\ vaultMode' = IF ok THEN VaultModeApply(aaCall) ELSE vaultMode
    /\ UNCHANGED <<session, lifecycleVars, validatorVars, utilityVars,
                   useAccountAbstraction, aaContract>>

\* Another party changes the mode the vault holds for user u.
OtherPartySetsMode(u, m) ==
    /\ vaultMode[u] # m
    /\ vaultMode' = [vaultMode EXCEPT ![u] = m]
    /\ UNCHANGED <<session, lifecycleVars, validatorVars, utilityVars,
                   useAccountAbstraction, aaContract,
                   aaCall>>

----------------------------------------------------------------------------
\* CardTokenizer.detectCardNetwork and maskCardNumber (crypto.ts 263-293).
\* A regular expression anchored at the start is the sequence of character
\* classes it matches.

Star == 13                 \* the character '*'

\* No mask computed yet.
NotMasked == <<0 - 1>>

IdleTokenizer == [pan |-> <<>>, network |-> None, masked |-> NotMasked]

\* /^.../.test(cleaned), the expression being the classes of pat in order
Test(pat, cleaned) ==
    /\ Len(cleaned) >= Len(pat)
    /\ \A i \in 1..Len(pat) : cleaned[i] \in pat[i]

\* /^4/
isVisa(cleaned) == Test(<<{4}>>, cleaned)

\* The Mastercard test with 272\d in place of 720.
isMastercard_Wide(cleaned) ==
    \/ Test(<<{5}, 1..5>>, cleaned)
    \/ Test(<<{2}, {2}, {2}, 1..9>>, cleaned)
    \/ Test(<<{2}, {2}, 3..9, 0..9>>, cleaned)
    \/ Test(<<{2}, 3..6, 0..9, 0..9>>, cleaned)
    \/ Test(<<{2}, {7}, {0, 1}, 0..9>>, cleaned)
    \/ Test(<<{2}, {7}, {2}, 0..9>>, cleaned)

\* /^5[1-5]/ || /^2(22[1-9]|2[3-9]\d|[3-6]\d{2}|7[01]\d|720)/
isMastercard(cleaned) ==
    \/ Test(<<{5}, 1..5>>, cleaned)
    \/ Test(<<{2}, {2}, {2}, 1..9>>, cleaned)
    \/ Test(<<{2}, {2}, 3..9, 0..9>>, cleaned)
    \/ Test(<<{2}, 3..6, 0..9, 0..9>>, cleaned)
    \/ Test(<<{2}, {7}, {0, 1}, 0..9>>, cleaned)
    \/ Test(<<{2}, {7}, {2}, {0}>>, cleaned)

\* /^(60|6521|6522)/
isRupay(cleaned) ==
    \/ Test(<<{6}, {0}>>, cleaned)
    \/ Test(<<{6}, {5}, {2}, {1}>>, cleaned)
    \/ Test(<<{6}, {5}, {2}, {2}>>, cleaned)

\* /^3[47]/
isAmex(cleaned) == Test(<<{3}, {4, 7}>>, cleaned)

detectCardNetwork(pan) ==
    LET cleaned == CleanPan(pan) IN
    IF isVisa(cleaned) THEN "visa"
    ELSE IF isMastercard(cleaned) THEN "mastercard"
    ELSE IF isRupay(cleaned) THEN "rupay"
    ELSE IF isAmex(cleaned) THEN "amex"
    ELSE "unknown"

\* '*'.repeat(n)
repeat(n) == [i \in 1..n |-> Star]

\* cleaned.slice(-4)
sliceLast4(cleaned) ==
    IF Len(cleaned) <= 4 THEN cleaned
    ELSE SubSeq(cleaned, Len(cleaned) - 3, Len(cleaned))

\* The mask of the PAN as typed, separators included.
maskCardNumber_Raw(pan) ==
    IF Len(pan) < 4 THEN repeat(Len(pan))
    ELSE repeat(Len(pan) - 4) \o sliceLast4(pan)

maskCardNumber(pan) ==
    LET cleaned == CleanPan(pan) IN
    IF Len(cleaned) < 4 THEN repeat(Len(cleaned))
    ELSE repeat(Len(cleaned) - 4) \o sliceLast4(cleaned)

\* CardTokenizer.detectCardNetwork(tokenizer.pan)
DetectNetwork ==
    /\ tokenizer.network = None
    /\ tokenizer' = [tokenizer EXCEPT !.network = detectCardNetwork(tokenizer.pan)]
    /\ UNCHANGED <<session, lifecycleVars, aaVars, validatorVars, expiry, cipher, confirm, db>>

\* CardTokenizer.maskCardNumber(tokenizer.pan)
MaskNumber ==
    /\ tokenizer.masked = NotMasked
    /\ tokenizer' = [tokenizer EXCEPT !.masked = maskCardNumber(tokenizer.pan)]
    /\ UNCHANGED <<session, lifecycleVars, aaVars, validatorVars, expiry, cipher, confirm, db>>

----------------------------------------------------------------------------
\* storeCard's expiry timestamp (engine.ts 182-189).  A Date is its local
\* year, month index and day; an instant is a day number counted from
\* 1970-01-01 UTC and the milliseconds into that day.

MS_PER_DAY == 86400000

MS_PER_MINUTE == 60000

\* Minutes by which local time is ahead of UTC on the machine running the SDK.
TimeZoneOffsets == {-720, -300, 0, 330, 840}

\* No timestamp computed yet.
NoInstant == [day |-> 0 - 1, sec |-> 0]

IdleExpiry ==
    [expiryMonth |-> 0, expiryYear |-> 0, offset |-> 0, expiresAt |-> NoInstant]

\* parseInt('20' + expiryYear) for a two-digit expiryYear
parseYear(yy) == 20 * 100 + yy

\* ECMAScript MakeDay: a month index outside 0..11 carries into the year.
MakeDate(y, mi, d) == [year |-> y + (mi \div 12), month |-> mi % 12, day |-> d]

\* Date.prototype.setMonth keeping the year the Date had.
setMonth_NoCarry(date, mi) == [date EXCEPT !.month = mi % 12]

\* Date.prototype.setMonth(mi)
setMonth(date, mi) == MakeDate(date.year, mi, date.day)

\* The day number of a proleptic Gregorian date (month index 0..11).
DayFromDate(date) ==
    LET m   == date.month + 1
        y   == IF m <= 2 THEN date.year - 1 ELSE date.year
        era == y \div 400
        yoe == y - era * 400
        doy == ((153 * (IF m > 2 THEN m - 3 ELSE m + 9) + 2) \div 5) + date.day - 1
        doe == yoe * 365 + (yoe \div 4) - (yoe \div 100) + doy
    IN era * 146097 + doe - 719468

\* Date.prototype.getTime of a Date at local midnight.
getTime(date, offset) ==
    LET ms == 0 - offset * MS_PER_MINUTE IN
    [day |-> DayFromDate(date) + (ms \div MS_PER_DAY), ms |-> ms % MS_PER_DAY]

\* Math.floor(t / 1000), as seconds into the day
floorSeconds(t) == [day |-> t.day, sec |-> t.ms \div 1000]

\* engine.ts 183-189
computeExpiresAt(mm, yy, offset) ==
    LET expiryDate == MakeDate(parseYear(yy), mm - 1, 1)
        moved      == setMonth(expiryDate, expiryDate.month + 1)
    IN floorSeconds(getTime(moved, offset))

\* storeCard reaches engine.ts 183 with the card's expiry fields.
ComputeExpiry ==
    /\ expiry.expiresAt = NoInstant
    /\ expiry' = [expiry EXCEPT
                    !.expiresAt = computeExpiresAt(expiry.expiryMonth,
                                                   expiry.expiryYear,
                                                   expiry.offset)]
    /\ UNCHANGED <<session, lifecycleVars, aaVars, validatorVars, tokenizer, cipher, confirm, db>>

----------------------------------------------------------------------------
\* RingCompatibleCrypto.encrypt / decrypt (crypto.ts 34-80).  AES-256-GCM is
\* the ideal cipher: a ciphertext byte records the key, the IV and the
\* position it was made under and the plaintext byte it decrypts to, so that
\* changing it changes what it decrypts to; a tag byte records what the tag
\* was computed over.  v is the byte's own value: the IV byte, the plaintext
\* byte, or for a tag byte 0 when genuine.

ByteValues == {0, 1, 2}

Byte(kind, key, iv, pos, v, body) ==
    [kind |-> kind, key |-> key, iv |-> iv, pos |-> pos, v |-> v, body |-> body]

CipherKeys ==
    { [id |-> 1, len |-> KEY_LENGTH], [id |-> 2, len |-> KEY_LENGTH],
      [id |-> 3, len |-> 16] }

\* randomBytes(IV_LENGTH)
IVs == { [i \in 1..IV_LENGTH |-> 0], [i \in 1..IV_LENGTH |-> IF i = 5 THEN 2 ELSE 1] }

KindCode(kind) == IF kind = "iv" THEN 1 ELSE IF kind = "ct" THEN 2 ELSE 3

\* What the tag is computed over: the bytes of the ciphertext, spelt out.
RECURSIVE Spell(_)
Spell(bytes) ==
    IF bytes = <<>> THEN <<>>
    ELSE LET b == Head(bytes) IN
         <<KindCode(b.kind), b.key, b.pos, b.v>> \o b.iv \o b.body \o Spell(Tail(bytes))

\* cipher.update(data) ++ cipher.final()
cipherUpdate(data, key, iv) ==
    [i \in 1..Len(data) |-> Byte("ct", key.id, iv, i, data[i], <<>>)]

\* cipher.getAuthTag(): AUTH_TAG_LENGTH bytes over key, IV and ciphertext
getAuthTag(key, iv, ciphertext) ==
    [j \in 1..AUTH_TAG_LENGTH |-> Byte("tag", key.id, iv, j, 0, Spell(ciphertext))]

\* Buffer.concat([iv, encrypted, authTag])
encrypt(data, key, iv) ==
    LET encrypted == cipherUpdate(data, key, iv) IN
    [i \in 1..IV_LENGTH |-> Byte("iv", 0, <<>>, 0, iv[i], <<>>)]
        \o encrypted \o getAuthTag(key, iv, encrypted)

\* Buffer.prototype.slice(start, end): negative offsets count from the end.
slice(buf, start, end) ==
    LET n == Len(buf)
        s == IF start < 0 THEN (IF n + start < 0 THEN 0 ELSE n + start)
             ELSE (IF start > n THEN n ELSE start)
        e == IF end < 0 THEN (IF n + end < 0 THEN 0 ELSE n + end)
             ELSE (IF end > n THEN n ELSE end)
    IN SubSeq(buf, s + 1, e)

\* The ciphertext taken from the start of the payload, IV included.
ciphertextOf_FromStart(encryptedData) == slice(encryptedData, 0, 0 - AUTH_TAG_LENGTH)

\* encryptedData.slice(IV_LENGTH, -AUTH_TAG_LENGTH)
ciphertextOf(encryptedData) == slice(encryptedData, IV_LENGTH, 0 - AUTH_TAG_LENGTH)

\* The IV the decipher is created with: the values of the IV bytes.
ivOf(encryptedData) ==
    LET iv == slice(encryptedData, 0, IV_LENGTH) IN
    [i \in 1..Len(iv) |-> IF iv[i].kind = "iv" THEN iv[i].v ELSE 0 - 1]

\* A decipher that does not compare the tag.
tagVerifies_Unchecked(key, iv, ciphertext, authTag) == TRUE

\* decipher.final() compares the tag set by setAuthTag with the tag of what
\* it was given.
tagVerifies(key, iv, ciphertext, authTag) ==
    authTag = getAuthTag(key, iv, ciphertext)

\* decipher.update(ciphertext): a byte decrypts to its plaintext byte under
\* the key, IV and position it was made under, and to noise otherwise.
decipherUpdate(ciphertext, key, iv) ==
    [i \in 1..Len(ciphertext) |->
        LET b == ciphertext[i] IN
        IF b.kind = "ct" /\ b.key = key.id /\ b.iv = iv /\ b.pos = i
        THEN b.v ELSE 0 - 1]

IdleCipher ==
    [data |-> <<>>, key |-> [id |-> 0, len |-> 0],
     decKey |-> [id |-> 0, len |-> 0], payload |-> <<>>,
     changed |-> 0, pc |-> "idle", outcome |-> None, err |-> None,
     result |-> <<>>]

\* RingCompatibleCrypto.encrypt(data, key): the random IV is iv.
Encrypt(iv) ==
    /\ cipher.pc = "start"
    /\ cipher' = IF cipher.key.len # KEY_LENGTH
                 THEN [cipher EXCEPT !.pc = "done", !.outcome = "threw",
                                     !.err = "KeyLength"]
                 ELSE [cipher EXCEPT !.pc = "encrypted",
                                     !.payload = encrypt(cipher.data, cipher.key, iv)]
    /\ UNCHANGED <<session, lifecycleVars, aaVars, validatorVars, expiry, tokenizer, confirm, db>>

\* Byte i of the stored payload is changed to another value.
ChangeByte(i, d) ==
    /\ cipher.pc = "encrypted"
    /\ cipher.changed = 0
    /\ i \in 1..Len(cipher.payload)
    /\ cipher' = [cipher EXCEPT !.changed = i,
                                !.payload[i].v = (@ + d) % Cardinality(ByteValues)]
    /\ UNCHANGED <<session, lifecycleVars, aaVars, validatorVars, expiry, tokenizer, confirm, db>>

\* RingCompatibleCrypto.decrypt(payload, key)
Decrypt(key) ==
    /\ cipher.pc = "encrypted"
    /\ cipher' =
          LET encryptedData == cipher.payload
              iv            == ivOf(encryptedData)
              authTag       == slice(encryptedData, 0 - AUTH_TAG_LENGTH,
                                     Len(encryptedData))
              ciphertext    == ciphertextOf(encryptedData)
              r             == [cipher EXCEPT !.pc = "done", !.decKey = key]
          IN IF key.len # KEY_LENGTH
             THEN [r EXCEPT !.outcome = "threw", !.err = "KeyLength"]
             ELSE IF ~tagVerifies(key, iv, ciphertext, authTag)
             THEN [r EXCEPT !.outcome = "threw", !.err = "Authentication"]
             ELSE [r EXCEPT !.outcome = "returned",
                            !.result = decipherUpdate(ciphertext, key, iv)]
    /\ UNCHANGED <<session, lifecycleVars, aaVars, validatorVars, expiry, tokenizer, confirm, db>>

----------------------------------------------------------------------------
\* signAndSubmitTransaction (lib/db.ts 205-248), cut at its awaits.  The
\* wallet and the Soroban RPC server are the environment.

SendStatuses == {"PENDING", "DUPLICATE", "TRY_AGAIN_LATER", "ERROR"}

GetStatuses == {"NOT_FOUND", "SUCCESS", "FAILED"}

\* Messages of the errors the wallet or the server may raise.
\* Hashes the server gives to submitted transactions.
TxHashes == {"h1", "h2"}

ErrorMessages == {"User rejected the request", "Request cancelled", "Network Error"}

IdleConfirm ==
    [pc |-> "idle", publicKey |-> None, sendStatus |-> None, getStatus |-> None,
     hash |-> None, polls |-> 0, success |-> FALSE, txHash |-> None,
     error |-> None]

\* return { success: true, txHash: response.hash }
ConfirmSucceed(rec) ==
    [rec EXCEPT !.pc = "done", !.success = TRUE, !.txHash = rec.hash]

\* return { success: false, error: ... }
ConfirmFail(rec, e) == [rec EXCEPT !.pc = "done", !.success = FALSE, !.error = e]

\* catch (error): a rejection by the user is reported as a cancellation.
ConfirmCatch(rec, message) ==
    IF message \in {"User rejected the request", "Request cancelled"}
    THEN ConfirmFail(rec, "Transaction cancelled by user")
    ELSE ConfirmFail(rec, message)

\* The code after an answer of getTransaction (db.ts 226-236).
AfterGetTransaction(rec, status) ==
    LET r == [rec EXCEPT !.getStatus = status,
                         !.polls = IF @ < MaxPolls THEN @ + 1 ELSE @] IN
    IF status = "NOT_FOUND" THEN [r EXCEPT !.pc = "sleeping"]
    ELSE IF status = "SUCCESS" THEN ConfirmSucceed(r)
    ELSE ConfirmFail(r, "Transaction failed")

\* await kit.signTransaction(...) resolves
SignResolves ==
    /\ confirm.pc = "signing"
    /\ confirm' = [confirm EXCEPT !.pc = "sending"]
    /\ UNCHANGED <<session, lifecycleVars, aaVars, validatorVars, expiry, tokenizer, cipher, db>>

\* await server.sendTransaction(tx) resolves with a status and a hash
SendResolves(status, hash) ==
    /\ confirm.pc = "sending"
    /\ confirm' =
          LET r == [confirm EXCEPT !.sendStatus = status, !.hash = hash] IN
          IF status = "PENDING" THEN [r EXCEPT !.pc = "polling"]
          ELSE ConfirmSucceed(r)
    /\ UNCHANGED <<session, lifecycleVars, aaVars, validatorVars, expiry, tokenizer, cipher, db>>

\* await server.getTransaction(response.hash) resolves with a status
GetTransactionResolves(status) ==
    /\ confirm.pc = "polling"
    /\ confirm' = AfterGetTransaction(confirm, status)
    /\ UNCHANGED <<session, lifecycleVars, aaVars, validatorVars, expiry, tokenizer, cipher, db>>

\* The one-second timer fires and getTransaction is called again.
TimerFires ==
    /\ confirm.pc = "sleeping"
    /\ confirm' = [confirm EXCEPT !.pc = "polling"]
    /\ UNCHANGED <<session, lifecycleVars, aaVars, validatorVars, expiry, tokenizer, cipher, db>>

\* Any of the awaited calls rejects.
AwaitRejects(message) ==
    /\ confirm.pc \in {"signing", "sending", "polling"}
    /\ confirm' = ConfirmCatch(confirm, message)
    /\ UNCHANGED <<session, lifecycleVars, aaVars, validatorVars, expiry, tokenizer, cipher, db>>

----------------------------------------------------------------------------
\* The cards and points API routes (app/api/cards/route.ts,
\* app/api/points/route.ts) over the tables of prisma/schema.sql.  A handler
\* runs its statements in order and answers 500 at the first one that
\* fails; statements already run stay applied (no transaction is opened).
\* Requests are served one after the other.

CardIds == {"c1", "c2"}

\* The columns of the tables, as created by schema.sql.
Columns ==
    [card_tokens |->
        {"id", "user_id", "token_hash", "encrypted_payload",
         "soroban_contract_address", "soroban_transaction_id", "status",
         "card_network", "last_4_digits", "created_at", "expires_at",
         "revoked_at"},
     rewards_ledger |->
        {"id", "user_id", "points", "tx_type", "reference_id", "description",
         "metadata", "created_at"},
     user_points_balance |-> {"user_id", "total_points", "tier", "updated_at"},
     audit_log |->
        {"id", "user_id", "action", "entity_type", "entity_id", "metadata",
         "ip_address", "user_agent", "created_at"}]

\* A statement naming a column its table lacks is rejected by the database.
ColumnsExist(table, cols) == cols \subseteq Columns[table]

NoCard == [exists |-> FALSE, user |-> None, status |-> None]

NoBalance == [exists |-> FALSE, total |-> 0, tier |-> None]

NoResp == [route |-> None, status |-> 0, card |-> None, user |-> None,
           fault |-> FALSE]

IdleDb ==
    [cardTokens |-> [c \in CardIds |-> NoCard],
     auditLog |-> <<>>,
     balance |-> [u \in Users |-> NoBalance],
     resp |-> NoResp]

\* The amounts POST /api/points is called with.
PointAmounts == {5000, 20000}

\* NextResponse.json(..., { status })
Respond(d, route, status, card, user, fault) ==
    [d EXCEPT !.resp = [route |-> route, status |-> status, card |-> card,
                        user |-> user, fault |-> fault]]

\* CASE WHEN total >= 25000 ... END of POST /api/points
tierCase(total) ==
    IF total >= 25000 THEN "platinum"
    ELSE IF total >= 10000 THEN "gold"
    ELSE IF total >= 5000 THEN "silver"
    ELSE "bronze"

\* DELETE /api/cards?cardId=..&userId=..; faultAt is the statement at which
\* the database connection fails, 0 for none.
deleteCard(d, cardId, userId, faultAt) ==
    IF cardId = None \/ userId = None
    THEN Respond(d, "DELETE", 400, cardId, userId, FALSE)
    ELSE IF faultAt = 1
    THEN Respond(d, "DELETE", 500, cardId, userId, TRUE)
    ELSE IF ~(d.cardTokens[cardId].exists /\ d.cardTokens[cardId].user = userId)
    THEN Respond(d, "DELETE", 404, cardId, userId, FALSE)
    ELSE IF faultAt = 2
    THEN Respond(d, "DELETE", 500, cardId, userId, TRUE)
    ELSE IF ~ColumnsExist("card_tokens", {"status", "updated_at", "id"})
    THEN Respond(d, "DELETE", 500, cardId, userId, FALSE)
    ELSE LET revoked == [d EXCEPT !.cardTokens[cardId].status = "revoked"] IN
         IF faultAt = 3
         THEN Respond(revoked, "DELETE", 500, cardId, userId, TRUE)
         ELSE Respond([revoked EXCEPT !.auditLog =
                          Append(@, [action |-> "token_revoke", card |-> cardId])],
                      "DELETE", 200, cardId, userId, FALSE)

\* The id the database gives the next card_tokens row.
NextCardId(d) == CHOOSE c \in CardIds : ~d.cardTokens[c].exists

\* POST /api/cards: insert the token, log it, award 50 points.
postCard(d, userId, hasPayload, faultAt) ==
    LET c == NextCardId(d) IN
    IF userId = None
    THEN Respond(d, "POST cards", 400, None, userId, FALSE)
    ELSE IF faultAt = 1
    THEN Respond(d, "POST cards", 500, None, userId, TRUE)
    ELSE IF ~hasPayload                    \* encrypted_payload BYTEA NOT NULL
    THEN Respond(d, "POST cards", 500, None, userId, FALSE)
    ELSE LET d1 == [d EXCEPT !.cardTokens[c] =
                        [exists |-> TRUE, user |-> userId, status |-> "active"]]
             d2 == [d1 EXCEPT !.auditLog =
                        Append(@, [action |-> "token_create", card |-> c])]
             d4 == [d2 EXCEPT !.balance[userId].total =
                        IF d2.balance[userId].exists THEN @ + 50 ELSE @]
         IN IF faultAt = 2 THEN Respond(d1, "POST cards", 500, c, userId, TRUE)
            ELSE IF faultAt = 3 THEN Respond(d2, "POST cards", 500, c, userId, TRUE)
            ELSE IF faultAt = 4 THEN Respond(d2, "POST cards", 500, c, userId, TRUE)
            ELSE Respond(d4, "POST cards", 200, c, userId, FALSE)

\* POST /api/points: insert into the ledger, then upsert the balance.
postPoints(d, userId, points, faultAt) ==
    LET row == d.balance[userId] IN
    IF faultAt \in {1, 2}
    THEN Respond(d, "POST points", 500, None, userId, TRUE)
    ELSE Respond([d EXCEPT !.balance[userId] =
                     IF row.exists
                     THEN [row EXCEPT !.total = @ + points,
                                      !.tier = tierCase(row.total + points)]
                     ELSE [exists |-> TRUE, total |-> points, tier |-> "bronze"]],
                 "POST points", 200, None, userId, FALSE)

CardsDELETE(cardId, userId, faultAt) ==
    /\ db' = deleteCard(db, cardId, userId, faultAt)
    /\ UNCHANGED <<session, lifecycleVars, aaVars, validatorVars, expiry, tokenizer, cipher, confirm>>

CardsPOST(userId, hasPayload, faultAt) ==
    /\ \E c \in CardIds : ~db.cardTokens[c].exists
    /\ userId # None => db.balance[userId].total + 50 <= MaxTotal
    /\ db' = postCard(db, userId, hasPayload, faultAt)
    /\ UNCHANGED <<session, lifecycleVars, aaVars, validatorVars, expiry, tokenizer, cipher, confirm>>

PointsPOST(userId, points, faultAt) ==
    /\ db.balance[userId].total + points <= MaxTotal
    /\ db' = postPoints(db, userId, points, faultAt)
    /\ UNCHANGED <<session, lifecycleVars, aaVars, validatorVars, expiry, tokenizer, cipher, confirm>>

UtilitiesIdle ==
    /\ expiry = IdleExpiry
    /\ tokenizer = IdleTokenizer
    /\ cipher = IdleCipher
    /\ confirm = IdleConfirm
    /\ db = IdleDb

----------------------------------------------------------------------------
\* The session and its lifecycle operations; account abstraction is off.

Init ==
    /\ userKeypair = None
    /\ userPublicKey = None
    /\ externalSigner = None
    /\ messageSigner = None
    /\ derivedEncryptionKey = NoKey
    /\ contract \in BOOLEAN
    /\ call = IdleCall
    /\ msgSignerPending = [u \in Users |-> 0]
    /\ derivations = 0
    /\ vaultTokens = {}
    /\ useAccountAbstraction = FALSE
    /\ aaContract = FALSE
    /\ vaultMode = [u \in Users |-> "standard"]
    /\ aaCall = IdleAACall
    /\ basePan = <<>>
    /\ inputPan = <<>>
    /\ baseVerdict = None
    /\ verdict = None
    /\ UtilitiesIdle

LifecycleNext ==
    \/ \E u \in Users : initialize(u)
    \/ \E u \in Users : initializeReadOnly(u)
    \/ \E u \in Users, ms \in {None, Wallet} : initializeWithSigner(u, ms)
    \/ \E u \in Users : MessageSignerResolves(u)
    \/ \E u \in Users : MessageSignerRejects(u)
    \/ \E pan \in CardPans : storeCard(pan)
    \/ retrieveCard
    \/ revokeCard
    \/ \E k \in Keys : decryptCard(k)
    \/ DeriveUserKeyResumes
    \/ \E ok \in BOOLEAN : LoadAccountSettles(ok)
    \/ \E ok \in BOOLEAN : ExternalSignerSettles(ok)
    \/ \E ok \in BOOLEAN : SubmitSettles(ok)

Next == LifecycleNext

----------------------------------------------------------------------------
\* The session's initializers and the access-mode operations, under every
\* configuration the constructor accepts.

InitAA ==
    /\ userKeypair = None
    /\ userPublicKey = None
    /\ externalSigner = None
    /\ messageSigner = None
    /\ derivedEncryptionKey = NoKey
    /\ contract = TRUE
    /\ call = IdleCall
    /\ msgSignerPending = [u \in Users |-> 0]
    /\ derivations = 0
    /\ vaultTokens = {}
    /\ useAccountAbstraction \in BOOLEAN
    /\ aaContract \in BOOLEAN
    /\ aaContract => useAccountAbstraction
    /\ vaultMode = [u \in Users |-> "standard"]
    /\ aaCall = IdleAACall
    /\ basePan = <<>>
    /\ inputPan = <<>>
    /\ baseVerdict = None
    /\ verdict = None
    /\ UtilitiesIdle

NextAA ==
    \/ \E u \in Users : initialize(u)
    \/ \E u \in Users : initializeReadOnly(u)
    \/ \E u \in Users : initializeWithSigner(u, None)
    \/ getAAMode
    \/ \E m \in AccessModes : setAAMode(m)
    \/ \E ok \in BOOLEAN : AALoadAccountSettles(ok)
    \/ \E ok \in BOOLEAN : AASubmitSettles(ok)
    \/ \E u \in Users, m \in AccessModes : OtherPartySetsMode(u, m)

SpecAA == InitAA /\ [][NextAA]_vars

----------------------------------------------------------------------------
\* The card validator on its own: a PAN is handed to validateCardNumber, and
\* then one of its digits is replaced and the result is validated again.

ValidatorPans ==
    { <<4,5,3,9,1,4,8,8,0,3,4,0>>,                          \* 12, Luhn holds
      <<4,5,3,9,1,4,8,8,0,3,4,3,3>>,                        \* 13
      <<4,2,2,2,2,2,2,2,2,2,2,2,2>>,                        \* 13
      <<4,2,2,2,2,2,2,2,2,2,2,2,3>>,                        \* 13, Luhn fails
      <<3,0,5,6,9,3,0,9,0,2,5,9,0,4>>,                      \* 14
      <<3,7,8,2,8,2,2,4,6,3,1,0,0,0,5>>,                    \* 15
      <<4,2,4,2,4,2,4,2,4,2,4,2,4,2,4,2>>,                  \* 16
      <<4,5,3,9,1,4,8,8,0,3,4,3,6,4,6,7>>,                  \* 16
      <<4,5,3,9,1,4,8,8,0,3,4,3,6,4,6,7,8>>,                \* 17
      <<4,5,3,9,1,4,8,8,0,3,4,3,6,4,6,7,0,0>>,              \* 18
      <<4,5,3,9,1,4,8,8,0,3,4,3,6,4,6,7,0,0,8>>,            \* 19
      <<4,5,3,9,1,4,8,8,0,3,4,3,6,4,6,7,0,0,9>>,            \* 19, Luhn fails
      <<4,5,3,9,1,4,8,8,0,3,4,3,6,4,6,7,0,0,0,0>>,          \* 20, Luhn holds
      <<4,2,4,2,10,4,2,4,2,10,4,2,4,2,10,4,2,4,2>>,         \* 16, spaced
      <<4,2,4,2,11,4,2,4,2,11,4,2,4,2,11,4,2,4,2>>,         \* 16, dashed
      <<4,2,2,2,11,2,2,2,2,10,2,2,2,2,2>>,                  \* 13, both
      <<4,2,4,2,4,2,4,2,4,2,4,2,4,2,4,12>>,                 \* a letter
      <<12,4,2,4,2,4,2,4,2,4,2,4,2,4,2,4,2>>,               \* a leading sign
      <<10,11,10>>,                                         \* separators only
      <<>> }                                                \* empty

Verdict(accepted) == IF accepted THEN "accepted" ELSE "rejected"

InitValidator ==
    /\ userKeypair = None
    /\ userPublicKey = None
    /\ externalSigner = None
    /\ messageSigner = None
    /\ derivedEncryptionKey = NoKey
    /\ contract = TRUE
    /\ call = IdleCall
    /\ msgSignerPending = [u \in Users |-> 0]
    /\ derivations = 0
    /\ vaultTokens = {}
    /\ useAccountAbstraction = FALSE
    /\ aaContract = FALSE
    /\ vaultMode = [u \in Users |-> "standard"]
    /\ aaCall = IdleAACall
    /\ basePan \in ValidatorPans
    /\ inputPan = basePan
    /\ baseVerdict = None
    /\ verdict = None
    /\ UtilitiesIdle

\* CardTokenizer.validateCardNumber(inputPan)
Validate ==
    /\ verdict = None
    /\ verdict' = Verdict(validateCardNumber(inputPan))
    /\ baseVerdict' = IF inputPan = basePan THEN verdict' ELSE baseVerdict
    /\ UNCHANGED <<session, lifecycleVars, aaVars, utilityVars, basePan,
                   inputPan>>

\* The caller replaces the digit at position i of the validated PAN by d.
Perturb(i, d) ==
    /\ verdict # None
    /\ inputPan = basePan
    /\ i \in 1..Len(basePan)
    /\ basePan[i] \in 0..9
    /\ d # basePan[i]
    /\ inputPan' = [basePan EXCEPT ![i] = d]
    /\ verdict' = None
    /\ UNCHANGED <<session, lifecycleVars, aaVars, utilityVars, basePan,
                   baseVerdict>>

NextValidator ==
    \/ Validate
    \/ \E i \in 1..MAX_PAN_LENGTH + 1, d \in 0..9 : Perturb(i, d)

SpecValidator == InitValidator /\ [][NextValidator]_vars

----------------------------------------------------------------------------
\* A session just constructed on which nothing is called.

CoreIdle ==
    /\ userKeypair = None
    /\ userPublicKey = None
    /\ externalSigner = None
    /\ messageSigner = None
    /\ derivedEncryptionKey = NoKey
    /\ contract = TRUE
    /\ call = IdleCall
    /\ msgSignerPending = [u \in Users |-> 0]
    /\ derivations = 0
    /\ vaultTokens = {}
    /\ useAccountAbstraction = FALSE
    /\ aaContract = FALSE
    /\ vaultMode = [u \in Users |-> "standard"]
    /\ aaCall = IdleAACall
    /\ basePan = <<>>
    /\ inputPan = <<>>
    /\ baseVerdict = None
    /\ verdict = None

----------------------------------------------------------------------------
\* The expiry computation on its own: every expiry month, every two-digit
\* year, several time zones.

InitExpiry ==
    /\ CoreIdle
    /\ db = IdleDb
    /\ confirm = IdleConfirm
    /\ cipher = IdleCipher
    /\ \E mm \in 1..12, yy \in 0..99, offset \in TimeZoneOffsets :
          expiry = [IdleExpiry EXCEPT !.expiryMonth = mm, !.expiryYear = yy,
                                      !.offset = offset]
    /\ tokenizer = IdleTokenizer

NextExpiry == ComputeExpiry

SpecExpiry == InitExpiry /\ [][NextExpiry]_vars

----------------------------------------------------------------------------
\* The tokenizer helpers on their own, over every four-digit prefix.

Prefixes == [1..4 -> 0..9]

PanTail == <<0, 0, 0, 0, 0, 0, 0, 0, 1, 2, 3, 4>>

TokenizerPans ==
    UNION { { p \o PanTail,                                  \* sixteen digits
              <<p[1], 10, p[2], 11, p[3], p[4]>>,         \* separators inside
              <<p[1], p[2], p[3], 12>> \o PanTail,           \* a letter fourth
              <<10, p[1], p[2], p[3]>>,                   \* three digits
              <<p[1], p[2]>>,                             \* two digits
              <<p[1]>> } : p \in Prefixes }
        \cup { <<>>, <<10, 11>> }

InitTokenizer ==
    /\ CoreIdle
    /\ db = IdleDb
    /\ confirm = IdleConfirm
    /\ cipher = IdleCipher
    /\ expiry = IdleExpiry
    /\ \E pan \in TokenizerPans : tokenizer = [IdleTokenizer EXCEPT !.pan = pan]

NextTokenizer ==
    \/ DetectNetwork
    \/ MaskNumber

SpecTokenizer == InitTokenizer /\ [][NextTokenizer]_vars

----------------------------------------------------------------------------
\* The cipher on its own: a plaintext is encrypted under a key with a random
\* IV, one byte of the payload may be changed, and the payload is decrypted
\* under a key.

Plaintexts == UNION { [1..n -> ByteValues] : n \in 0..MaxPlain }

InitCipher ==
    /\ CoreIdle
    /\ db = IdleDb
    /\ confirm = IdleConfirm
    /\ expiry = IdleExpiry
    /\ tokenizer = IdleTokenizer
    /\ \E data \in Plaintexts, key \in CipherKeys :
          cipher = [IdleCipher EXCEPT !.data = data, !.key = key, !.pc = "start"]

NextCipher ==
    \/ \E iv \in IVs : Encrypt(iv)
    \/ \E i \in 1..IV_LENGTH + MaxPlain + AUTH_TAG_LENGTH,
          d \in 1..Cardinality(ByteValues) - 1 : ChangeByte(i, d)
    \/ \E key \in CipherKeys : Decrypt(key)

SpecCipher == InitCipher /\ [][NextCipher]_vars

----------------------------------------------------------------------------
\* signAndSubmitTransaction on its own.  Every promise it awaits settles and
\* the timer fires: each step that is enabled is eventually taken.

InitConfirm ==
    /\ CoreIdle
    /\ db = IdleDb
    /\ expiry = IdleExpiry
    /\ tokenizer = IdleTokenizer
    /\ cipher = IdleCipher
    /\ \E u \in Users : confirm = [IdleConfirm EXCEPT !.pc = "signing", !.publicKey = u]

NextConfirm ==
    \/ SignResolves
    \/ \E status \in SendStatuses, hash \in TxHashes : SendResolves(status, hash)
    \/ \E status \in GetStatuses : GetTransactionResolves(status)
    \/ TimerFires
    \/ \E message \in ErrorMessages : AwaitRejects(message)

SpecConfirm == InitConfirm /\ [][NextConfirm]_vars /\ WF_vars(NextConfirm)

----------------------------------------------------------------------------
\* The API routes on their own, over empty tables.

InitApi ==
    /\ CoreIdle
    /\ expiry = IdleExpiry
    /\ tokenizer = IdleTokenizer
    /\ cipher = IdleCipher
    /\ confirm = IdleConfirm
    /\ db = IdleDb

NextApi ==
    \/ \E cardId \in CardIds \cup {None}, userId \in Users \cup {None},
          faultAt \in 0..3 : CardsDELETE(cardId, userId, faultAt)
    \/ \E userId \in Users \cup {None}, hasPayload \in BOOLEAN,
          faultAt \in 0..4 : CardsPOST(userId, hasPayload, faultAt)
    \/ \E userId \in Users, points \in PointAmounts,
          faultAt \in 0..2 : PointsPOST(userId, points, faultAt)

SpecApi == InitApi /\ [][NextApi]_vars

Spec == Init /\ [][Next]_vars

----------------------------------------------------------------------------
\* Properties.

CapabilityErrors == {"CapabilityWrite", "CapabilityEncrypt"}

\* Entry states in which the session holds a transaction signer.
SigningKinds == {"local", "delegated", "both"}

\* C1: on a session that only initializeReadOnly has touched, storeCard
\* rejects with a capability error for every card, and no network call, no
\* signer call and no encryption has happened when it rejects.
C1_ReadOnlyStoreRejected ==
    (call.op = "storeCard" /\ call.entry = "readOnly") =>
        /\ call.pc = "done"
        /\ call.outcome = "threw"
        /\ call.err \in CapabilityErrors
        /\ call.net = 0
        /\ call.subs = 0
        /\ call.signs = 0
        /\ call.encs = 0

C1_Witness ==
    /\ call.op = "storeCard"
    /\ call.entry = "readOnly"
    /\ validateCardNumber(call.pan)
    /\ call.outcome = "threw"

\* C2: the key a storeCard or decryptCard call applies is the key derived
\* for the identity getUserAddress() returns.
C2_KeyMatchesIdentity ==
    call.key # NoKey => call.key.user = call.identity

\* C3: the message signer is never invoked while an earlier invocation for
\* the session is still pending.
C3_SingleFlight == PendingTotal <= 1

\* C4: within one session the encryption key is derived at most once: once
\* a key has been derived, no step of a storeCard or decryptCard call runs a
\* derivation again.
C4_DerivedAtMostOnce ==
    [][(derivations >= 1 /\ call' # call) => derivations' = derivations]_vars

\* C5: the session never holds a local keypair signer and a delegated
\* external signer at the same time.
C5_AtMostOneSigner == ~(userKeypair # None /\ externalSigner # None)

\* C6: a finished storeCard has returned a TokenMetadata if and only if the
\* encryption succeeded and the submission returned success; otherwise it
\* has rejected and produced no value.
C6_MetadataIffStored ==
    (call.op = "storeCard" /\ call.pc = "done") =>
        /\ (call.outcome = "returned") <=> (call.encs = 1 /\ call.submitted)
        /\ call.outcome = "returned" => call.result = "TokenMetadata"
        /\ call.outcome # "returned" =>
              call.outcome = "threw" /\ call.result = None /\ call.err # None

C6_Witness ==
    /\ call.op = "storeCard"
    /\ call.pc = "done"
    /\ call.result = "TokenMetadata"
    /\ call.submitted

\* C7: a storeCard call submits at most one transaction, and a failed
\* submission is rethrown to the caller as it is.
C7_NoResubmission ==
    call.op = "storeCard" =>
        /\ call.subs <= 1
        /\ call.cause = "SubmitFailed" =>
              /\ call.pc = "done"
              /\ call.outcome = "threw"
              /\ call.err = "SubmitFailed"
              /\ call.subs = 1

C7_Witness ==
    /\ call.op = "storeCard"
    /\ call.cause = "SubmitFailed"
    /\ call.outcome = "threw"

\* C8: revokeCard never raises, whatever the session state.
C8_RevokeNeverRaises == call.op = "revokeCard" => call.outcome # "threw"

\* C9: an error of retrieveCard that is not a network, account or contract
\* not-found condition (a rejecting or missing signer) is raised, not
\* turned into null.
C9_OtherErrorsRaised ==
    (call.op = "retrieveCard" /\ call.cause \in {"SignerRejected", "NoSigner"}) =>
        call.outcome = "threw"

\* C10: on a session that can sign, retrieveCard for a user whose account or
\* contract is missing, or who has no token, resolves to null and does not
\* throw.
C10_AbsentIsNull ==
    (/\ call.op = "retrieveCard"
     /\ call.entry \in SigningKinds
     /\ \/ call.cause \in {"LoadAccountFailed", "NoContract", "SubmitFailed"}
        \/ call.submitted) =>
        /\ call.pc = "done"
        /\ call.outcome = "returned"
        /\ call.result = "null"

C10_Witness ==
    /\ call.op = "retrieveCard"
    /\ call.entry \in SigningKinds
    /\ call.cause = "LoadAccountFailed"
    /\ call.result = "null"

\* C11: once storeCard has succeeded for the session's address and the
\* token has not been revoked, a retrieveCard whose transaction is submitted
\* successfully returns the token's record, not null.
C11_StoredTokenRetrieved ==
    (call.op = "retrieveCard" /\ call.submitted /\ call.token = "record") =>
        call.outcome = "returned" /\ call.result = "TokenMetadata"

\* C12: retrieveCard on a session that only initializeReadOnly has touched
\* is not rejected for lack of signing capability or of initialization.
C12_ReadOnlyCanRetrieve ==
    (call.op = "retrieveCard" /\ call.entry = "readOnly") =>
        ~(call.outcome = "threw" /\ call.err \in {"CapabilityWrite", "NotInitialized"})

\* The call was entered on a session holding an external signer, no keypair
\* and no derived key (no message signer has produced one).
EntrySignerOnly(rec) == rec.entry = "delegated" /\ ~rec.entryDerived

\* The call was entered on a session that could write and encrypt.
EntryWriteAndEncrypt(rec) ==
    rec.entry \in {"local", "both"} \/ (rec.entry = "delegated" /\ rec.entryDerived)

\* C13: with a public identity and a transaction signer but no message
\* signer, canEncrypt() is false, storeCard and decryptCard fail with a
\* capability error before any signer or network call, and retrieveCard is
\* not refused.
C13_SignerOnlySession ==
    /\ (/\ userKeypair = None
        /\ externalSigner # None
        /\ messageSigner = None
        /\ derivedEncryptionKey = NoKey) => ~canEncrypt
    /\ (EntrySignerOnly(call) /\ call.op \in {"storeCard", "decryptCard"}) =>
          /\ call.pc = "done"
          /\ call.outcome = "threw"
          /\ call.err \in CapabilityErrors
          /\ call.net = 0
          /\ call.signs = 0
          /\ call.encs = 0
    /\ (EntrySignerOnly(call) /\ call.op = "retrieveCard") =>
          /\ call.outcome # "threw"
          /\ call.net >= 1

C13_Witness ==
    /\ messageSigner = None
    /\ derivations = 0
    /\ EntrySignerOnly(call)
    /\ call.op = "storeCard"
    /\ validateCardNumber(call.pan)
    /\ call.outcome = "threw"

\* C14: on a session that can write and encrypt, storeCard with a PAN that
\* fails validateCardNumber rejects with the invalid-card error before any
\* key derivation, encryption, signer invocation or network call, and
\* nothing is attempted again.
C14_InvalidCardRejected ==
    (/\ call.op = "storeCard"
     /\ EntryWriteAndEncrypt(call)
     /\ ~validateCardNumber(call.pan)) =>
        /\ call.pc = "done"
        /\ call.outcome = "threw"
        /\ call.err = "InvalidCard"
        /\ call.keySrc = None
        /\ call.key = NoKey
        /\ call.encs = 0
        /\ call.signs = 0
        /\ call.net = 0
        /\ call.subs = 0

C14_Witness ==
    /\ call.op = "storeCard"
    /\ EntryWriteAndEncrypt(call)
    /\ Len(call.pan) >= MIN_PAN_LENGTH
    /\ ~validateCardNumber(call.pan)
    /\ call.err = "InvalidCard"

\* C17: no step of a decryptCard call touches the network, invokes the
\* transaction signer or invokes the message signer.
C17_DecryptIsLocal ==
    [][(call'.op = "decryptCard" /\ call' # call) =>
          /\ call'.net = 0
          /\ call'.subs = 0
          /\ call'.signs = 0
          /\ msgSignerPending' = msgSignerPending
          /\ vaultTokens' = vaultTokens]_vars

C17_Witness ==
    /\ call.op = "decryptCard"
    /\ call.outcome = "returned"
    /\ call.result = "CardData"

\* What the caller of a finished call can see.
Observable(rec) == <<rec.outcome, rec.result, rec.err>>

\* C18: when the external signer's wait ends because the user dismissed the
\* request, what the operation hands its caller differs from what it hands
\* out after a failed submission.
C18_CancelDistinguishable ==
    call.cause = "SignerRejected" =>
        Observable(call) # Observable(Catch(call, "SubmitFailed"))

\* C15: with account abstraction not enabled, getAAMode returns 'standard'
\* at once and setAAMode fails with the configuration error, and neither
\* makes a network call or builds a transaction.
C15_DisabledShortCircuits ==
    ((~useAccountAbstraction \/ ~aaContract) /\ aaCall.op # None) =>
        /\ aaCall.pc = "done"
        /\ aaCall.net = 0
        /\ aaCall.built = 0
        /\ aaCall.op = "getAAMode" =>
              aaCall.outcome = "returned" /\ aaCall.result = "standard"
        /\ aaCall.op = "setAAMode" =>
              aaCall.outcome = "threw" /\ aaCall.err = "AccountAbstractionNotEnabled"

C15_Witness ==
    /\ ~useAccountAbstraction
    /\ userKeypair # None
    /\ aaCall.op = "setAAMode"
    /\ aaCall.outcome = "threw"

\* C16: with account abstraction enabled, a getAAMode whose transaction went
\* through returns the mode the vault holds for the user.
C16_ModeReadFromVault ==
    (aaCall.op = "getAAMode" /\ aaCall.submitted) =>
        aaCall.outcome = "returned" /\ aaCall.result = aaCall.answer

----------------------------------------------------------------------------
\* The validator's contract, stated without the validator's loop.

Stripped(str) == SelectSeq(str, LAMBDA ch : ch # 10 /\ ch # 11)

OnlyDigits(str) == \A i \in 1..Len(str) : str[i] \in 0..9

\* The k-th character counted from the rightmost, which is the first.
FromRight(str, k) == str[Len(str) - k + 1]

Doubled(d) == IF 2 * d > 9 THEN 2 * d - 9 ELSE 2 * d

RECURSIVE LuhnTotal(_, _)
LuhnTotal(str, k) ==
    IF k > Len(str) THEN 0
    ELSE (IF k % 2 = 0 THEN Doubled(FromRight(str, k)) ELSE FromRight(str, k))
            + LuhnTotal(str, k + 1)

WellFormedPan(str) ==
    LET digits == Stripped(str) IN
    /\ OnlyDigits(digits)
    /\ Len(digits) >= 13 /\ Len(digits) <= 19
    /\ LuhnTotal(digits, 1) % 10 = 0

\* C19: validateCardNumber accepts a PAN exactly when the PAN, with its
\* spaces and dashes removed, is made of digits only, is 13 to 19 long, and
\* has a Luhn sum (every second digit from the rightmost doubled, less 9
\* when the doubled value exceeds 9) divisible by 10.
C19_AcceptsIffWellFormed ==
    verdict # None => (verdict = "accepted" <=> WellFormedPan(inputPan))

\* A PAN of 13 digits written with a space and a dash, accepted.
C19_Witness ==
    /\ verdict = "accepted"
    /\ Len(inputPan) = Len(Stripped(inputPan)) + 2
    /\ Len(Stripped(inputPan)) = 13

\* The PAN under validation is basePan with exactly one digit replaced by
\* a different digit.
OneDigitReplaced ==
    /\ Len(inputPan) = Len(basePan)
    /\ Cardinality({i \in 1..Len(basePan) : inputPan[i] # basePan[i]}) = 1
    /\ OnlyDigits(inputPan)

\* C20: when a digit string of 13 to 19 digits is accepted, the string with
\* any one digit replaced by a different digit is rejected.
C20_SingleDigitErrorRejected ==
    ( /\ baseVerdict = "accepted"
      /\ OnlyDigits(basePan)
      /\ Len(basePan) >= 13 /\ Len(basePan) <= 19
      /\ OneDigitReplaced
      /\ verdict # None )
        => verdict = "rejected"

\* A 19-digit accepted PAN whose doubled leading digit was replaced, and the
\* replacement rejected.
C20_Witness ==
    /\ baseVerdict = "accepted"
    /\ Len(basePan) = 19
    /\ OnlyDigits(basePan)
    /\ OneDigitReplaced
    /\ inputPan[2] # basePan[2]
    /\ verdict = "rejected"

----------------------------------------------------------------------------
\* C29: an initializeWithSigner call whose message signer rejects leaves the
\* session as it was before the call.  No key is cached and no invocation
\* is pending exactly when every invocation of the message signer so far
\* was rejected; if each of those calls left the session as it found it,
\* the session still holds no message signer.
C29_FailedInitLeavesSession ==
    (derivedEncryptionKey = NoKey /\ PendingTotal = 0) => messageSigner = None

----------------------------------------------------------------------------
\* C28: setAAMode fails with 'Account abstraction not enabled' only when
\* account abstraction is not enabled: called on a session that has it
\* enabled and configured and that can sign, with a keypair or with an
\* external signer, it does not raise that error.
C28_ConfigErrorOnlyWhenDisabled ==
    [][ ( /\ AACallFree
          /\ aaCall' # aaCall
          /\ aaCall'.op = "setAAMode"
          /\ useAccountAbstraction /\ aaContract
          /\ canWrite )
        => aaCall'.err # "AccountAbstractionNotEnabled" ]_vars

----------------------------------------------------------------------------
\* The calendar, counted month by month from January 1970.

IsLeap(y) == (y % 4 = 0 /\ y % 100 # 0) \/ y % 400 = 0

DaysInMonth(y, m) ==
    IF m = 2 THEN (IF IsLeap(y) THEN 29 ELSE 28)
    ELSE IF m \in {4, 6, 9, 11} THEN 30 ELSE 31

\* The leap years among the years 1 .. y - 1.
LeapYearsBefore(y) == ((y - 1) \div 4) - ((y - 1) \div 100) + ((y - 1) \div 400)

\* Days from 1970-01-01 to the first day of year y.
DaysBeforeYear(y) ==
    365 * (y - 1970) + LeapYearsBefore(y) - LeapYearsBefore(1970)

\* Days from the first day of year y to the first day of its month m.
RECURSIVE DaysIntoYear(_, _)
DaysIntoYear(y, m) ==
    IF m = 1 THEN 0 ELSE DaysIntoYear(y, m - 1) + DaysInMonth(y, m - 1)

\* Days from 1970-01-01 to the first day of month m (1..12) of year y.
DaysBefore(y, m) == DaysBeforeYear(y) + DaysIntoYear(y, m)

\* Local midnight of day number d, as a UTC day and the seconds into it.
LocalMidnight(d, offset) ==
    LET total == 0 - offset * 60 IN
    [day |-> d + (total \div 86400), sec |-> total % 86400]

\* C26: expiresAt is the start, in the SDK's time zone, of the month after
\* the expiry month: month m + 1 of year 20yy, and January of 20yy + 1 when
\* m is 12.
C26_ExpiresAtStartOfNextMonth ==
    expiry.expiresAt # NoInstant =>
        LET m == expiry.expiryMonth
            y == 2000 + expiry.expiryYear
        IN expiry.expiresAt =
              LocalMidnight(IF m = 12 THEN DaysBefore(y + 1, 1)
                            ELSE DaysBefore(y, m + 1),
                            expiry.offset)

\* December 2099 in a zone east of UTC: the year carries to 2100 and the
\* instant falls on the last UTC day of 2099.
C26_Witness ==
    /\ expiry.expiryMonth = 12 /\ expiry.expiryYear = 99 /\ expiry.offset = 330
    /\ expiry.expiresAt # NoInstant
    /\ expiry.expiresAt.day = DaysBefore(2100, 1) - 1

----------------------------------------------------------------------------
\* The network rules, stated on the number the leading digits spell.

\* The number spelt by the first n characters of str, or -1 when str is
\* shorter than n or one of them is no digit.
RECURSIVE Leading(_, _)
Leading(str, n) ==
    IF n = 0 THEN 0
    ELSE IF Len(str) < n \/ str[n] \notin 0..9 \/ Leading(str, n - 1) < 0
    THEN 0 - 1
    ELSE 10 * Leading(str, n - 1) + str[n]

RuleVisa(str) == Leading(str, 1) = 4

RuleMastercard(str) ==
    \/ Leading(str, 2) \in 51..55
    \/ Leading(str, 4) \in 2221..2720

RuleRupay(str) == Leading(str, 2) = 60 \/ Leading(str, 4) \in {6521, 6522}

RuleAmex(str) == Leading(str, 2) \in {34, 37}

ExpectedNetwork(str) ==
    IF RuleVisa(str) THEN "visa"
    ELSE IF RuleMastercard(str) THEN "mastercard"
    ELSE IF RuleRupay(str) THEN "rupay"
    ELSE IF RuleAmex(str) THEN "amex"
    ELSE "unknown"

\* The tests of detectCardNetwork that the cleaned PAN passes.
RulesMatched(cleaned) ==
    {r \in {"visa", "mastercard", "rupay", "amex"} :
        \/ r = "visa" /\ isVisa(cleaned)
        \/ r = "mastercard" /\ isMastercard(cleaned)
        \/ r = "rupay" /\ isRupay(cleaned)
        \/ r = "amex" /\ isAmex(cleaned)}

\* C21: detectCardNetwork gives visa for prefix 4, mastercard for 51..55 and
\* for exactly the four-digit prefixes 2221..2720, rupay for 60, 6521 and
\* 6522, amex for 34 and 37, unknown otherwise; and no PAN passes the test
\* of more than one network.
C21_NetworkByPrefix ==
    tokenizer.network # None =>
        /\ tokenizer.network = ExpectedNetwork(Stripped(tokenizer.pan))
        /\ Cardinality(RulesMatched(CleanPan(tokenizer.pan))) <= 1

\* The last Mastercard prefix, typed with separators.
C21_Witness ==
    /\ tokenizer.pan = <<2, 10, 7, 11, 2, 0>>
    /\ tokenizer.network = "mastercard"

\* C22: the mask is as long as the PAN without its spaces and dashes; its
\* last four characters are the last four of those and every earlier one is
\* '*'; below four characters the mask is all '*'.
C22_MaskKeepsLastFour ==
    tokenizer.masked # NotMasked =>
        LET digits == Stripped(tokenizer.pan)
            n      == Len(digits)
            masked == tokenizer.masked
        IN /\ Len(masked) = n
           /\ \A i \in 1..n :
                 masked[i] = IF n >= 4 /\ i > n - 4 THEN digits[i] ELSE Star

\* A six-character PAN with two separators: the mask is its four digits.
C22_Witness ==
    /\ tokenizer.pan = <<4, 10, 2, 11, 4, 2>>
    /\ tokenizer.masked = <<4, 2, 4, 2>>

----------------------------------------------------------------------------
\* The payload is the IV, then as many ciphertext bytes as the plaintext
\* has, then the tag.
PayloadLayout ==
    LET payload == cipher.payload
        n       == Len(cipher.data)
    IN /\ Len(payload) = 12 + n + 16
       /\ \A i \in 1..Len(payload) :
             payload[i].kind = IF i <= 12 THEN "iv"
                               ELSE IF i <= 12 + n THEN "ct" ELSE "tag"

\* C23: a payload made by encrypt under a 32-byte key is laid out as 12
\* bytes of IV, the ciphertext and 16 bytes of tag, and decrypt under the
\* same key gives back the plaintext.
C23_RoundTrip ==
    (Len(cipher.payload) > 0 /\ cipher.changed = 0) =>
        /\ PayloadLayout
        /\ (cipher.pc = "done" /\ cipher.decKey = cipher.key) =>
              cipher.outcome = "returned" /\ cipher.result = cipher.data

C23_Witness ==
    /\ Len(cipher.data) = 2
    /\ cipher.changed = 0
    /\ cipher.decKey = cipher.key
    /\ cipher.outcome = "returned"
    /\ cipher.result = cipher.data

\* C24: once one byte of a payload has been changed, in the IV, the
\* ciphertext or the tag, decrypt under any 32-byte key fails with an
\* authentication error and returns nothing.
C24_TamperDetected ==
    (cipher.pc = "done" /\ cipher.changed # 0 /\ cipher.decKey.len = KEY_LENGTH) =>
        cipher.outcome = "threw" /\ cipher.err = "Authentication"

\* A changed ciphertext byte, decrypted under the key that made the payload.
C24_Witness ==
    /\ cipher.changed = 12 + 1
    /\ Len(cipher.data) = 2
    /\ cipher.pc = "done"
    /\ cipher.decKey = cipher.key
    /\ cipher.err = "Authentication"

----------------------------------------------------------------------------
\* C25: the confirmation wait ends: once the submission was answered
\* PENDING, signAndSubmitTransaction eventually returns, also when the
\* server answers NOT_FOUND to every getTransaction.
C25_ConfirmationWaitEnds ==
    (confirm.sendStatus = "PENDING") ~> (confirm.pc = "done")

----------------------------------------------------------------------------
\* C27: card tokens are revoked, never deleted.  A DELETE /api/cards for a
\* card the user owns, served by a database that is up, leaves the row in
\* place with status 'revoked' and a token_revoke entry in audit_log.
C27_DeleteRevokesAndLogs ==
    LET r == db.resp IN
    ( /\ r.route = "DELETE"
      /\ ~r.fault
      /\ r.card # None /\ r.user # None
      /\ db.cardTokens[r.card].exists
      /\ db.cardTokens[r.card].user = r.user )
        => /\ r.status = 200
           /\ db.cardTokens[r.card].status = "revoked"
           /\ \E i \in 1..Len(db.auditLog) :
                 db.auditLog[i] = [action |-> "token_revoke", card |-> r.card]

TierOf(total) ==
    IF total >= 25000 THEN "platinum"
    ELSE IF total >= 10000 THEN "gold"
    ELSE IF total >= 5000 THEN "silver"
    ELSE "bronze"

\* C30: every stored tier is the tier of the stored total_points.
C30_TierMatchesTotal ==
    \A u \in Users :
        db.balance[u].exists => db.balance[u].tier = TierOf(db.balance[u].total)

====
